---- MODULE Spec2Model ----
(***************************************************************************)
(* Avatar cache manager and render pipeline of                             *)
(* utils/digital_human/realtime_inference.py.                              *)
(*                                                                         *)
(* The state is the avatar working directory on disk, the Avatar instance  *)
(* built over it (its five cyclic lists and self.idx), and the position of *)
(* the two threads of a render: the caller's thread running inference()    *)
(* and the thread running process_frames().  The login endpoint of         *)
(* server/base/routers/users.py is modelled beside them by the log of the  *)
(* requests it has served.                                                 *)
(***************************************************************************)
EXTENDS Integers, Sequences, FiniteSets, TLC

\* ------------------------------------------------------------------ bounds
MaxFrames == 2      \* source frames of the avatar that renders
MaxCacheFrames == 1 \* source frames of the avatars built one over the other
MaxChunks == 3      \* audio feature chunks of one render
MaxBatch == 2       \* batch_size of an Avatar
MaxRenders == 2     \* inference() calls

BboxShifts == {3, 5}

\* ------------------------------------------------------------- sequences
Reverse(s) ==
    [i \in 1..Len(s) |-> s[Len(s) + 1 - i]]

\* list + list[::-1]
Cycle(s) ==
    s \o Reverse(s)

\* range(0, n)
Range0(n) ==
    0..(n - 1)

\* ------------------------------------------------------- source material
\* A source is a video file or an image directory.  faces[i] tells whether
\* the landmark estimator finds a face in frame i; padded tells whether the
\* files of an image directory carry the 8-digit zero padded names that
\* prepare_material itself writes (00000000.png, ...), or other numeric
\* names (0.png, ...).  video2imgs always writes padded names.
FaceLists(frames) ==
    UNION {[1..n -> BOOLEAN] : n \in 1..frames}

SourcesOf(frames) ==
    {[kind |-> "video", faces |-> f, padded |-> TRUE] : f \in FaceLists(frames)}
    \cup {[kind |-> "dir", faces |-> f, padded |-> p] : f \in FaceLists(frames), p \in BOOLEAN}

Sources ==
    SourcesOf(MaxFrames)

CacheSources ==
    SourcesOf(MaxCacheFrames)

\* A file of an image directory: name (padded?, number) and content.
ImgFile(p, n, c) ==
    [pad |-> p, num |-> n, img |-> c]

\* -------------------------------------------------------------- the disk
EmptyDisk ==
    [avatar_path |-> FALSE,
     avatar_info_path |-> {},
     full_imgs_path |-> {},
     mask_out_path |-> {},
     mask_coords_path |-> {},
     coords_path |-> {},
     latents_out_path |-> {},
     tmp_dir |-> FALSE,
     tmp |-> {},
     temp_mp4 |-> FALSE]

\* shutil.rmtree(self.avatar_path)
rmtree(d) ==
    EmptyDisk

\* osmakedirs([avatar_path, full_imgs_path, video_out_path, mask_out_path])
osmakedirs(d) ==
    [d EXCEPT !.avatar_path = TRUE]

\* coord_placeholder
coord_placeholder ==
    <<0, 0, 0, 0>>

\* Files of a directory listed in increasing number; among two files with
\* the same number (00000001.png and 1.png) the padded one comes first iff
\* the number is in first.
RECURSIVE ListFrom(_, _, _, _)
ListFrom(files, first, n, top) ==
    IF n > top THEN <<>>
    ELSE LET here == {f \in files : f.num = n}
             pd == {f \in here : f.pad}
             sh == {f \in here : ~f.pad}
             one(S) == IF S = {} THEN <<>> ELSE <<(CHOOSE f \in S : TRUE).img>>
         IN (IF n \in first THEN one(pd) \o one(sh) ELSE one(sh) \o one(pd))
            \o ListFrom(files, first, n + 1, top)

MaxNum(files) ==
    IF files = {} THEN -1 ELSE CHOOSE m \in {f.num : f \in files} : \A f \in files : f.num <= m

\* glob + sorted(key=int(stem)) + read_imgs: the images of a directory in
\* the order of the numbers of their file names
load_imgs(files, first) ==
    ListFrom(files, first, 0, MaxNum(files))

\* cv2.imwrite / shutil.copyfile: a file of the same name is overwritten
imwrite(files, f) ==
    {g \in files : ~(g.pad = f.pad /\ g.num = f.num)} \cup {f}

\* ---------------------------------------------------------- collaborators
\* Bounding box of the face found in frame c with the given bbox_shift.
FaceBox(c, bbox_shift) ==
    <<c, c + bbox_shift, c + 2, c + bbox_shift + 2>>

\* get_landmark_and_bbox: one box per frame, the placeholder where no face
\* is found, together with the frames themselves.
get_landmark_and_bbox(video_path, input_img_list, bbox_shift) ==
    [coord_list |-> [i \in 1..Len(input_img_list) |->
                        IF video_path.faces[input_img_list[i]]
                        THEN FaceBox(input_img_list[i], bbox_shift)
                        ELSE coord_placeholder],
     frame_list |-> input_img_list]

\* vae_model.get_latents_for_unet(crop of frame by bbox)
get_latents_for_unet(frame, bbox) ==
    [latent_of |-> frame, box |-> bbox]

\* get_image_prepare_material(frame, face_box) -> (mask, crop_box)
get_image_prepare_material(frame, face_box) ==
    [mask |-> [mask_of |-> frame, box |-> face_box],
     crop_box |-> [crop_of |-> face_box]]

\* ------------------------------------------------------ prepare_material
\* video2imgs / the copy loop: the numbered source frames in full_imgs
source_files(video_path) ==
    {ImgFile(video_path.padded, i - 1, i) : i \in 1..Len(video_path.faces)}

\* The loop over zip(coord_list, frame_list): a latent for every frame
\* whose box is not the placeholder.
RECURSIVE input_latent_list(_, _, _)
input_latent_list(coord_list, frame_list, k) ==
    IF k > Len(coord_list) \/ k > Len(frame_list) THEN <<>>
    ELSE (IF coord_list[k] = coord_placeholder
          THEN <<>>
          ELSE <<get_latents_for_unet(frame_list[k], coord_list[k])>>)
         \o input_latent_list(coord_list, frame_list, k + 1)

\* The lists prepare_material holds in memory, from the materialized
\* frames on disk.
material(video_path, bbox_shift, files) ==
    LET lm == get_landmark_and_bbox(video_path, load_imgs(files, {}), bbox_shift)
        frame_list_cycle == Cycle(lm.frame_list)
        coord_list_cycle == Cycle(lm.coord_list)
        latents == input_latent_list(lm.coord_list, lm.frame_list, 1)
        pm == [i \in 1..Len(frame_list_cycle) |->
                  get_image_prepare_material(frame_list_cycle[i], coord_list_cycle[i])]
    IN [frame_list_cycle |-> frame_list_cycle,
        coord_list_cycle |-> coord_list_cycle,
        input_latent_list_cycle |-> Cycle(latents),
        mask_coords_list_cycle |-> [i \in 1..Len(pm) |-> pm[i].crop_box],
        mask_list_cycle |-> [i \in 1..Len(pm) |-> pm[i].mask]]

\* Number of writes of a complete prepare_material: the manifest, the
\* source frames, a frame and a mask per cyclic position, three pickles.
prepare_steps(video_path) ==
    2 + 4 * Len(video_path.faces) + 3

\* The disk after the first `stop` writes of prepare_material.
prepare_material(d, avatar_info, stop) ==
    LET video_path == avatar_info.video_path
        d2 == [d EXCEPT !.avatar_info_path = IF stop >= 1 THEN {avatar_info} ELSE @,
                        !.full_imgs_path = IF stop >= 2 THEN @ \cup source_files(video_path) ELSE @]
        m == material(video_path, avatar_info.bbox_shift, d2.full_imgs_path)
        L == Len(m.frame_list_cycle)
        imgs == {i \in Range0(L) : 2 + 2 * i + 1 <= stop}
        masks == {i \in Range0(L) : 2 + 2 * i + 2 <= stop}
    IN IF stop < 2 THEN d2
       ELSE [d2 EXCEPT
               !.full_imgs_path =
                   {g \in @ : ~(g.pad /\ g.num \in imgs)}
                   \cup {ImgFile(TRUE, i, m.frame_list_cycle[i + 1]) : i \in imgs},
               !.mask_out_path =
                   {g \in @ : ~(g.pad /\ g.num \in masks)}
                   \cup {ImgFile(TRUE, i, m.mask_list_cycle[i + 1]) : i \in masks},
               !.mask_coords_path = IF stop >= 2 + 2 * L + 1 THEN {m.mask_coords_list_cycle} ELSE @,
               !.coords_path = IF stop >= 2 + 2 * L + 2 THEN {m.coord_list_cycle} ELSE @,
               !.latents_out_path = IF stop >= 2 + 2 * L + 3 THEN {m.input_latent_list_cycle} ELSE @]

\* ------------------------------------------------------------------ state
VARIABLES
    disk,            \* the avatar working directory
    avatar,          \* the Avatar instance: its configuration and cyclic lists
    last_init,       \* what the latest Avatar.init did (history)
    pc,              \* position of the caller's thread in inference()
    thread,          \* position of process_thread in process_frames()
    idx,             \* self.idx
    res_frame_queue, \* queue.Queue() of reconstructed crops
    render,          \* the running inference() call: its arguments and locals
    res_frame,       \* the crop process_frames holds after queue.get
    last_render,     \* what the latest inference() did (history)
    renders,         \* number of inference() calls so far
    logins           \* the requests /user/login has served, with its responses

disk_vars == <<disk>>
avatar_vars == <<avatar, last_init>>
render_vars == <<pc, thread, idx, res_frame_queue, render, res_frame, last_render, renders>>
vars == <<disk, avatar, last_init, pc, thread, idx, res_frame_queue, render,
          res_frame, last_render, renders, logins>>

NoAvatar ==
    [alive |-> FALSE, bbox_shift |-> 0, batch_size |-> 0,
     frame_list_cycle |-> <<>>, coord_list_cycle |-> <<>>,
     input_latent_list_cycle |-> <<>>, mask_coords_list_cycle |-> <<>>,
     mask_list_cycle |-> <<>>]

\* ------------------------------------------------------------ Avatar.init
\* The bbox_shift values stored in the manifest (none if there is no file).
stored_bbox_shift(d) ==
    {info.bbox_shift : info \in d.avatar_info_path}

\* init_branch without the preparation_force test
init_branch_ignores_force(d, preparation_force, bbox_shift) ==
    IF ~d.avatar_path THEN "missing"
    ELSE IF d.avatar_info_path = {} THEN "unreadable"
    ELSE IF \E b \in {info.bbox_shift : info \in d.avatar_info_path} : b # bbox_shift
         THEN "mismatch"
    ELSE "match"

\* init_branch without the comparison of the stored bbox_shift
init_branch_ignores_shift(d, preparation_force, bbox_shift) ==
    IF preparation_force /\ d.avatar_path THEN "force"
    ELSE IF ~d.avatar_path THEN "missing"
    ELSE IF d.avatar_info_path = {} THEN "unreadable"
    ELSE "match"

\* The branch the if / elif / elif of init takes (lines 113-125):
\* "force" removes the tree and prepares, "missing" prepares, "mismatch"
\* removes the tree and prepares, "match" does neither; "unreadable" is the
\* third branch failing to open the manifest.
init_branch(d, preparation_force, bbox_shift) ==
    IF preparation_force /\ d.avatar_path THEN "force"
    ELSE IF ~d.avatar_path THEN "missing"
    ELSE IF d.avatar_info_path = {} THEN "unreadable"
    ELSE IF \E b \in stored_bbox_shift(d) : b # bbox_shift THEN "mismatch"
    ELSE "match"

manifest_unreadable(d, preparation_force) ==
    init_branch(d, preparation_force, 0) = "unreadable"

\* need_to_prepare after the three branches
need_to_prepare(d, preparation_force, bbox_shift) ==
    init_branch(d, preparation_force, bbox_shift) \in {"force", "missing", "mismatch"}

\* whether the branch taken calls shutil.rmtree(self.avatar_path)
removes_tree(d, preparation_force, bbox_shift) ==
    init_branch(d, preparation_force, bbox_shift) \in {"force", "mismatch"}

\* torch.load / pickle.load of a missing file raises; glob of a missing or
\* empty directory is the empty list.
load_raises(d) ==
    \/ d.latents_out_path = {}
    \/ d.coords_path = {}
    \/ d.mask_coords_path = {}

\* The five lists loaded from disk (lines 134-144).
load(d, first) ==
    [input_latent_list_cycle |-> CHOOSE x \in d.latents_out_path : TRUE,
     coord_list_cycle |-> CHOOSE x \in d.coords_path : TRUE,
     frame_list_cycle |-> load_imgs(d.full_imgs_path, first),
     mask_coords_list_cycle |-> CHOOSE x \in d.mask_coords_path : TRUE,
     mask_list_cycle |-> load_imgs(d.mask_out_path, first)]

\* prepare_material on a tree that osmakedirs has just made, tabulated: its
\* result depends on nothing else on the disk.
fresh_material ==
    [info \in [video_path : Sources \cup CacheSources, bbox_shift : BboxShifts] |->
        [stop \in 0..prepare_steps(info.video_path) |->
            prepare_material(osmakedirs(EmptyDisk), info, stop)]] @@ <<>>

\* The disk Avatar.init leaves: the tree removed and rebuilt by the first
\* `stop` writes of prepare_material if need_to_prepare, else untouched.
init_disk(d, avatar_info, preparation_force, stop) ==
    IF manifest_unreadable(d, preparation_force) THEN d
    ELSE LET d1 == IF removes_tree(d, preparation_force, avatar_info.bbox_shift)
                   THEN rmtree(d) ELSE d
         IN IF need_to_prepare(d, preparation_force, avatar_info.bbox_shift)
            THEN IF d1 = EmptyDisk
                 THEN fresh_material[avatar_info][stop]
                 ELSE prepare_material(osmakedirs(d1), avatar_info, stop)
            ELSE d1

\* The numbers carried by two files of a directory.
Ties(files) ==
    {n \in {f.num : f \in files} : Cardinality({f \in files : f.num = n}) > 1}

\* Avatar(...): __init__ stores the configuration (batch_size among it) and
\* calls init(); an exception of init leaves no instance.  stop is the
\* number of writes prepare_material completes before a collaborator
\* raises (all of them if none does); first settles the order in which
\* equal sort keys are loaded.
Avatar(video_path, bbox_shift, preparation_force, stop) ==
    /\ pc = "idle"
    /\ thread = "none"
    /\ LET avatar_info == [video_path |-> video_path, bbox_shift |-> bbox_shift]
           unreadable == manifest_unreadable(disk, preparation_force)
           d2 == init_disk(disk, avatar_info, preparation_force, stop)
           raised == \/ unreadable
                     \/ /\ need_to_prepare(disk, preparation_force, bbox_shift)
                        /\ stop < prepare_steps(video_path)
                     \/ load_raises(d2)
       IN /\ disk' = d2
          /\ IF raised
             THEN avatar' = NoAvatar
             ELSE \E batch_size \in 1..MaxBatch, first \in SUBSET Ties(d2.full_imgs_path) :
                    avatar' = [alive |-> TRUE, bbox_shift |-> bbox_shift,
                               batch_size |-> batch_size] @@ load(d2, first)
          /\ last_init' = [called |-> TRUE,
                           force |-> preparation_force, bbox_shift |-> bbox_shift,
                           existed |-> disk.avatar_path,
                           stored |-> stored_bbox_shift(disk),
                           prepared |-> ~unreadable /\ need_to_prepare(disk, preparation_force, bbox_shift),
                           removed |-> ~unreadable /\ removes_tree(disk, preparation_force, bbox_shift),
                           raised |-> raised]
    /\ idx' = 0
    /\ UNCHANGED <<pc, thread, res_frame_queue, render, res_frame, last_render, renders, logins>>

\* The points at which prepare_material can stop in this call.
Stops(d, video_path, bbox_shift, preparation_force) ==
    IF ~manifest_unreadable(d, preparation_force)
       /\ need_to_prepare(d, preparation_force, bbox_shift)
    THEN 0..prepare_steps(video_path)
    ELSE {prepare_steps(video_path)}

\* ------------------------------------------------------------- inference
NoRender ==
    [video_num |-> 0, skip_save_images |-> FALSE, next |-> 0, recon |-> <<>>,
     skipped |-> 0, box_skipped |-> 0, written |-> {}]

NoResult ==
    [status |-> "none", joined |-> FALSE, queue_at_join |-> <<>>,
     img2video |-> FALSE, combine_audio |-> FALSE,
     temp_mp4 |-> FALSE, tmp_before |-> {}]

Min(a, b) ==
    IF a <= b THEN a ELSE b

\* datagen: the next batch of at most batch_size chunks, chunk i paired
\* with the latent at index i % len(latents); the indices keep increasing
\* across batches.  The pair stands for the crop the models reconstruct
\* from it.
datagen(next, video_num, input_latent_list_cycle, batch_size) ==
    [j \in 1..Min(batch_size, video_num - next) |->
        [chunk |-> next + j - 1,
         latent |-> input_latent_list_cycle[((next + j - 1) % Len(input_latent_list_cycle)) + 1]]]

\* Lines 232-245: make the tmp directory, extract video_num chunks, reset
\* self.idx and start process_thread on a fresh queue.
inference(video_num, skip_save_images) ==
    /\ pc = "idle"
    /\ thread \in {"none", "done"}
    /\ avatar.alive
    /\ renders < MaxRenders
    /\ disk' = [disk EXCEPT !.tmp_dir = TRUE]
    /\ render' = [NoRender EXCEPT !.video_num = video_num,
                                  !.skip_save_images = skip_save_images]
    /\ res_frame_queue' = <<>>
    /\ idx' = 0
    /\ thread' = "check"
    /\ pc' = "produce"
    /\ last_render' = NoResult
    /\ renders' = renders + 1
    /\ UNCHANGED <<avatar, last_init, res_frame, logins>>

\* One iteration of the for loop up to the reconstruction of the batch
\* (lines 250-262).
GenerateBatch ==
    /\ pc = "produce"
    /\ render.recon = <<>>
    /\ render.next < render.video_num
    /\ Len(avatar.input_latent_list_cycle) > 0
    /\ LET batch == datagen(render.next, render.video_num,
                            avatar.input_latent_list_cycle, avatar.batch_size)
       IN render' = [render EXCEPT !.recon = batch, !.next = @ + Len(batch)]
    /\ UNCHANGED <<disk, avatar_vars, pc, thread, idx, res_frame_queue, res_frame,
                   last_render, renders, logins>>

\* datagen indexes an empty latent list: the exception leaves inference()
\* with process_thread still running.
GenerateRaises ==
    /\ pc = "produce"
    /\ render.recon = <<>>
    /\ render.next < render.video_num
    /\ Len(avatar.input_latent_list_cycle) = 0
    /\ pc' = "idle"
    /\ last_render' = [last_render EXCEPT !.status = "aborted"]
    /\ UNCHANGED <<disk, avatar_vars, thread, idx, res_frame_queue, render, res_frame,
                   renders, logins>>

\* res_frame_queue.put(res_frame) (line 264)
Put ==
    /\ pc = "produce"
    /\ render.recon # <<>>
    /\ res_frame_queue' = Append(res_frame_queue, Head(render.recon))
    /\ render' = [render EXCEPT !.recon = Tail(@)]
    /\ UNCHANGED <<disk, avatar_vars, pc, thread, idx, res_frame, last_render, renders, logins>>

\* The generator is exhausted: the caller reaches process_thread.join().
EndProduce ==
    /\ pc = "produce"
    /\ render.recon = <<>>
    /\ render.next >= render.video_num
    /\ pc' = "join"
    /\ UNCHANGED <<disk, avatar_vars, thread, idx, res_frame_queue, render, res_frame,
                   last_render, renders, logins>>

\* process_thread.join() returns once process_frames has returned.
Join ==
    /\ pc = "join"
    /\ thread = "done"
    /\ pc' = "assemble"
    /\ last_render' = [last_render EXCEPT !.joined = TRUE,
                                         !.queue_at_join = res_frame_queue]
    /\ UNCHANGED <<disk, avatar_vars, thread, idx, res_frame_queue, render, res_frame,
                   renders, logins>>

\* --------------------------------------------------------- process_frames
\* an exit test no counter value satisfies
frames_never_done(i, video_len) ==
    FALSE

\* The loop's exit test (line 207)
frames_done(i, video_len) ==
    i >= video_len - 1

\* list[self.idx % len(list)]
at(list, i) ==
    list[(i % Len(list)) + 1]

\* cv2.resize(res_frame, (x2 - x1, y2 - y1)) raises for a target size that
\* is not positive, and for a crop it cannot convert.
resize_raises(crop_ok, bbox) ==
    \/ ~crop_ok
    \/ bbox[3] - bbox[1] <= 0
    \/ bbox[4] - bbox[2] <= 0

\* get_image_blending(ori_frame, res_frame, bbox, mask, mask_crop_box)
get_image_blending(ori_frame, crop, bbox, mask, mask_crop_box) ==
    [ori_frame |-> ori_frame, res_frame |-> crop, bbox |-> bbox, mask |-> mask,
     mask_crop_box |-> mask_crop_box]

\* The file name the frame is written under (line 228)
frame_file(i, combine_frame) ==
    ImgFile(TRUE, i, combine_frame)

\* a counter that a finalized frame does not advance
idx_unchanged(i) ==
    i

\* self.idx = self.idx + 1 (line 229)
idx_next(i) ==
    i + 1

\* queue_get of a last-in-first-out queue
queue_get_lifo(q) ==
    [item |-> q[Len(q)], rest |-> SubSeq(q, 1, Len(q) - 1)]

\* The crop queue.get hands out, and the queue it leaves
queue_get(q) ==
    [item |-> Head(q), rest |-> Tail(q)]

\* an empty queue taken as the end of the stream: break
on_queue_empty_break ==
    "done"

\* `except queue.Empty: continue` (lines 212-213): back to the exit test
on_queue_empty ==
    "check"

\* `if self.idx >= video_len - 1: break`
CheckExit ==
    /\ thread = "check"
    /\ thread' = IF frames_done(idx, render.video_num) THEN "done" ELSE "get"
    /\ UNCHANGED <<disk, avatar_vars, pc, idx, res_frame_queue, render, res_frame,
                   last_render, renders, logins>>

\* res_frame_queue.get(block=True, timeout=1) returns the oldest crop
Get ==
    /\ thread = "get"
    /\ res_frame_queue # <<>>
    /\ res_frame' = <<queue_get(res_frame_queue).item>>
    /\ res_frame_queue' = queue_get(res_frame_queue).rest
    /\ thread' = "composite"
    /\ UNCHANGED <<disk, avatar_vars, pc, idx, render, last_render, renders, logins>>

\* queue.Empty after the timeout: continue
GetTimeout ==
    /\ thread = "get"
    /\ res_frame_queue = <<>>
    /\ thread' = on_queue_empty
    /\ UNCHANGED <<disk, avatar_vars, pc, idx, res_frame_queue, render, res_frame,
                   last_render, renders, logins>>

\* Lines 215-229: look the material up at self.idx, resize the crop, blend
\* and write the frame, advance self.idx; a resize failure skips the crop.
Composite(crop_ok) ==
    /\ thread = "composite"
    /\ LET crop == res_frame[1]
           bbox == at(avatar.coord_list_cycle, idx)
           ori_frame == at(avatar.frame_list_cycle, idx)
       IN IF resize_raises(crop_ok, bbox)
          THEN /\ render' = [render EXCEPT !.skipped = @ + 1,
                                           !.box_skipped = IF crop_ok THEN @ + 1 ELSE @]
               /\ UNCHANGED <<disk, idx>>
          ELSE LET mask == at(avatar.mask_list_cycle, idx)
                   mask_crop_box == at(avatar.mask_coords_list_cycle, idx)
                   combine_frame == get_image_blending(ori_frame, crop, bbox, mask,
                                                       mask_crop_box)
                   f == frame_file(idx, combine_frame)
               IN /\ IF render.skip_save_images
                     THEN UNCHANGED <<disk, render>>
                     ELSE /\ disk' = [disk EXCEPT !.tmp = imwrite(@, f)]
                          /\ render' = [render EXCEPT !.written = imwrite(@, f)]
                  /\ idx' = idx_next(idx)
    /\ res_frame' = <<>>
    /\ thread' = "check"
    /\ UNCHANGED <<avatar_vars, pc, res_frame_queue, last_render, renders, logins>>

\* ---------------------------------------------------------- video assembly
\* Lines 270-283.  img2video and combine_audio are the exit statuses of the
\* two ffmpeg commands (TRUE for 0), which os.system returns and the code
\* drops; temp_mp4_made tells whether the first command left a temp.mp4: it
\* does if it succeeds, it may if it fails after it has read frames, and it
\* needs frames in tmp to do either.  The second command needs a temp.mp4
\* to succeed.  os.remove raises if there is no temp.mp4.

\* cleanup without the rmtree of tmp
cleanup_keeps_tmp(d, temp) ==
    IF temp
    THEN [d EXCEPT !.temp_mp4 = FALSE]
    ELSE d

\* os.remove(temp.mp4) and shutil.rmtree(tmp) (lines 279-280), temp telling
\* whether there is a temp.mp4
cleanup(d, temp) ==
    IF temp
    THEN [d EXCEPT !.temp_mp4 = FALSE, !.tmp_dir = FALSE, !.tmp = {}]
    ELSE d

Assemble(img2video, temp_mp4_made, combine_audio) ==
    /\ pc = "assemble"
    /\ img2video => temp_mp4_made
    /\ temp_mp4_made => disk.tmp # {}
    /\ LET temp == disk.temp_mp4 \/ temp_mp4_made
       IN /\ combine_audio => temp
          /\ disk' = cleanup(disk, temp)
          /\ last_render' = [last_render EXCEPT
                                !.status = IF temp THEN "returned" ELSE "raised",
                                !.img2video = img2video,
                                !.combine_audio = combine_audio,
                                !.temp_mp4 = temp,
                                !.tmp_before = disk.tmp]
    /\ pc' = "idle"
    /\ UNCHANGED <<avatar_vars, thread, idx, res_frame_queue, render, res_frame, renders, logins>>

\* ------------------------------------------------------------ /user/login
\* server/base/routers/users.py.  A password is the bytes bcrypt reads (its
\* first 72) and the bytes after them; a hash is a digest of the former.
MaxLogins == 3        \* requests served by /user/login

TokenDays == 7        \* timedelta(days=7)

Usernames ==
    {"hingwen.wong", "nobody"}

Passwords ==
    [head : {"secret", "guess"}, tail : {"", "more"}]

\* PWD_CONTEXT.hash / the digest PWD_CONTEXT.verify recomputes
bcrypt(password) ==
    [digest_of |-> password.head]

fake_users_db ==
    [username \in {"hingwen.wong"} |->
        [username |-> "hingwen.wong", user_id |-> "1", ip_address |-> "127.0.0.1",
         email |-> "peterhuang0323@qq.com", hashed_password |-> bcrypt([head |-> "secret", tail |-> ""]),
         disabled |-> FALSE]]

\* int("1"): the user_id field of UserInfo is an int
to_int(text) ==
    IF text = "1" THEN 1 ELSE 0

\* UserInfo(**user_dict): the fields of UserInfo; ip_adress has no key of
\* its name in the dict and keeps its default
UserInfo(user_dict) ==
    [username |-> user_dict.username, user_id |-> to_int(user_dict.user_id),
     ip_adress |-> "None", disabled |-> user_dict.disabled, full_name |-> "None",
     email |-> user_dict.email, hashed_password |-> user_dict.hashed_password]

\* PWD_CONTEXT.verify(plain_password, hashed_password)
verify_password(plain_password, hashed_password) ==
    bcrypt(plain_password) = hashed_password

\* The UserInfo of username, none ({}) if the db has no such key
get_user(db, username) ==
    IF username \in DOMAIN db THEN {UserInfo(db[username])} ELSE {}

\* authenticate_user without the password check
authenticate_user_by_name(db_name, username, password) ==
    get_user(db_name, username)

\* The UserInfo of an authenticated user, False ({}) otherwise
authenticate_user(db_name, username, password) ==
    {user_info \in get_user(db_name, username) :
        verify_password(password, user_info.hashed_password)}

\* jwt.encode(token_data, key, algorithm)
jwt_encode(token_data) ==
    [signed |-> token_data]

\* POST /user/login at time now: HTTPException(401) or a TokenItem
login(username, password, now) ==
    LET user_info == authenticate_user(fake_users_db, username, password)
    IN IF user_info = {}
       THEN [status_code |-> 401, access_token |-> {}]
       ELSE LET u == CHOOSE x \in user_info : TRUE
                token_data == [user_id |-> u.user_id, username |-> u.username,
                               exp |-> now + TokenDays, ip |-> u.ip_adress,
                               login_time |-> now]
            IN [status_code |-> 200, access_token |-> {jwt_encode(token_data)}]

Login ==
    /\ Len(logins) < MaxLogins
    /\ \E username \in Usernames, password \in Passwords :
         logins' = Append(logins, [username |-> username, password |-> password,
                                   response |-> login(username, password, Len(logins))])
    /\ UNCHANGED <<disk, avatar_vars, render_vars>>

\* ---------------------------------------------------------- specifications
NoInit ==
    [called |-> FALSE, force |-> FALSE, bbox_shift |-> 0, existed |-> FALSE,
     stored |-> {}, prepared |-> FALSE, removed |-> FALSE, raised |-> FALSE]

Idle ==
    /\ pc = "idle"
    /\ thread = "none"
    /\ idx = 0
    /\ res_frame_queue = <<>>
    /\ render = NoRender
    /\ res_frame = <<>>
    /\ last_render = NoResult
    /\ renders = 0

Construct ==
    /\ pc = "idle"
    /\ thread = "none"
    /\ \E video_path \in CacheSources, bbox_shift \in BboxShifts, preparation_force \in BOOLEAN :
        \E stop \in Stops(disk, video_path, bbox_shift, preparation_force) :
            Avatar(video_path, bbox_shift, preparation_force, stop)

\* The cache: any sequence of Avatar constructions over one working
\* directory, which does not exist at first.
CacheInit ==
    /\ logins = <<>>
    /\ disk = EmptyDisk
    /\ avatar = NoAvatar
    /\ last_init = NoInit
    /\ Idle

CacheNext ==
    Construct

CacheSpec ==
    CacheInit /\ [][CacheNext]_vars

\* The renders: an Avatar built over a working directory that did not
\* exist, and the inference() calls made on it one after the other.
Init ==
    /\ logins = <<>>
    /\ Idle
    /\ \E video_path \in Sources, bbox_shift \in BboxShifts, batch_size \in 1..MaxBatch :
         LET avatar_info == [video_path |-> video_path, bbox_shift |-> bbox_shift]
             d == init_disk(EmptyDisk, avatar_info, FALSE, prepare_steps(video_path))
         IN \E first \in SUBSET Ties(d.full_imgs_path) :
              /\ disk = d
              /\ avatar = [alive |-> TRUE, bbox_shift |-> bbox_shift,
                           batch_size |-> batch_size] @@ load(d, first)
              /\ last_init = [NoInit EXCEPT !.called = TRUE, !.bbox_shift = bbox_shift,
                                            !.prepared = TRUE]

StartRender ==
    \E video_num \in 0..MaxChunks :
        inference(video_num, FALSE)

CompositeStep ==
    \E crop_ok \in BOOLEAN : Composite(crop_ok)

AssembleStep ==
    \E img2video \in BOOLEAN, temp_mp4_made \in BOOLEAN, combine_audio \in BOOLEAN :
        Assemble(img2video, temp_mp4_made, combine_audio)

Next ==
    \/ StartRender
    \/ GenerateBatch
    \/ GenerateRaises
    \/ Put
    \/ EndProduce
    \/ Join
    \/ CheckExit
    \/ Get
    \/ GetTimeout
    \/ CompositeStep
    \/ AssembleStep

Spec ==
    Init /\ [][Next]_vars

\* The five persisted artifacts of a cache
Artifacts ==
    {"latents_out_path", "coords_path", "full_imgs_path", "mask_coords_path",
     "mask_out_path"}

\* The working directory d without the artifacts in missing: a pickle that
\* is not there, an image directory that is not there or holds no image.
without(d, missing) ==
    [f \in DOMAIN d |-> IF f \in missing THEN {} ELSE d[f]]

\* The login endpoint: any sequence of requests.
LoginInit ==
    /\ logins = <<>>
    /\ disk = EmptyDisk
    /\ avatar = NoAvatar
    /\ last_init = NoInit
    /\ Idle

LoginNext ==
    Login

LoginSpec ==
    LoginInit /\ [][LoginNext]_vars

\* The cache reloaded: Avatar constructions over a working directory that
\* an earlier run has prepared completely and from which any of the five
\* artifacts may since have been lost.
DamagedInit ==
    /\ logins = <<>>
    /\ Idle
    /\ avatar = NoAvatar
    /\ last_init = NoInit
    /\ \E video_path \in CacheSources, bbox_shift \in BboxShifts, missing \in SUBSET Artifacts :
         LET avatar_info == [video_path |-> video_path, bbox_shift |-> bbox_shift]
         IN disk = without(init_disk(EmptyDisk, avatar_info, FALSE, prepare_steps(video_path)),
                           missing)

DamagedSpec ==
    DamagedInit /\ [][CacheNext]_vars

\* The two threads of a render are scheduled by the interpreter: each of
\* them takes its next step when it has one.
Fairness ==
    /\ WF_vars(GenerateBatch)
    /\ WF_vars(GenerateRaises)
    /\ WF_vars(Put)
    /\ WF_vars(EndProduce)
    /\ WF_vars(Join)
    /\ WF_vars(CheckExit)
    /\ WF_vars(Get)
    /\ WF_vars(GetTimeout)
    /\ WF_vars(CompositeStep)
    /\ WF_vars(AssembleStep)

FairSpec ==
    Init /\ [][Next]_vars /\ Fairness

\* ================================================================ claims
\* inference() ran to its end: it returned, or os.remove raised
Assembled ==
    last_render.status \in {"returned", "raised"}

\* N: the source frames in which a face is found
ValidFaces(video_path) ==
    Cardinality({i \in DOMAIN video_path.faces : video_path.faces[i]})

\* a box of no positive size
Malformed(bbox) ==
    bbox[3] - bbox[1] <= 0 \/ bbox[4] - bbox[2] <= 0

\* the chunks of the render whose crop belongs at a malformed box
MalformedChunks ==
    {k \in Range0(render.video_num) : Malformed(at(avatar.coord_list_cycle, k))}

\* Everything pushed has been taken, the producer waits in join() and the
\* exit test of process_frames is false: process_frames polls for ever.
Stuck ==
    /\ pc = "join"
    /\ res_frame_queue = <<>>
    /\ res_frame = <<>>
    /\ ~frames_done(idx, render.video_num)

\* C1: when process_frames has returned, the number of frame files the
\* render wrote to tmp is T - s (T audio chunks, s crops skipped by a resize
\* failure).
C1_WrittenIsTargetMinusSkipped ==
    (thread = "done" /\ ~render.skip_save_images) =>
        Cardinality(render.written) = render.video_num - render.skipped

\* C2: in a render without skipped crops the frame files are numbered
\* 0, 1, 2, ... without gap or repeat, and file k holds the crop generated
\* from the k-th audio chunk (and the latent paired with it).
C2_FifoNumbering ==
    (render.skipped = 0 /\ ~render.skip_save_images) =>
        /\ {f.num : f \in render.written} = Range0(idx)
        /\ Cardinality(render.written) = idx
        /\ \A f \in render.written :
              /\ f.pad
              /\ f.img.res_frame.chunk = f.num
              /\ f.img.res_frame.latent = at(avatar.input_latent_list_cycle, f.num)

C2_Witness ==
    /\ thread = "done"
    /\ render.skipped = 0
    /\ ~render.skip_save_images
    /\ avatar.batch_size = 1
    /\ Cardinality(render.written) = 2

\* C3: a render in which exactly one chunk's crop belongs at a malformed
\* box (and no other resize fails) still completes: process_frames is never
\* left polling an empty queue below its exit threshold, and once join()
\* has returned exactly T - 1 frames are written and nothing was raised.
C3_OneMalformedBoxStillCompletes ==
    (/\ renders > 0
     /\ ~render.skip_save_images
     /\ Cardinality(MalformedChunks) = 1
     /\ render.skipped = render.box_skipped) =>
        /\ ~Stuck
        /\ last_render.joined =>
              Cardinality(render.written) = render.video_num - 1

\* C4: process_frames leaves its loop exactly when self.idx has reached the
\* number of audio chunks T.
C4_ExitsAtTarget ==
    thread = "done" => idx = render.video_num

\* C5: after a successful Avatar.init the five cyclic lists all have length
\* 2 * N, N the number of source frames with a face.
C5_FiveListsOfLength2N ==
    avatar.alive =>
        \A info \in disk.avatar_info_path :
            LET L == 2 * ValidFaces(info.video_path)
            IN /\ Len(avatar.frame_list_cycle) = L
               /\ Len(avatar.coord_list_cycle) = L
               /\ Len(avatar.input_latent_list_cycle) = L
               /\ Len(avatar.mask_list_cycle) = L
               /\ Len(avatar.mask_coords_list_cycle) = L

\* C6: Avatar.init removes an existing working directory and runs the
\* preparation if and only if the directory does not exist, or a forced
\* rebuild is asked for, or the manifest stores another bbox_shift than the
\* one asked for; otherwise it prepares nothing and leaves the directory as
\* it is.
C6_PrepareIffMissingForcedOrMismatch ==
    [][last_init'.called /\ <<disk, avatar, last_init>>' # <<disk, avatar, last_init>> =>
        LET cond == \/ ~disk.avatar_path
                    \/ last_init'.force
                    \/ \E b \in stored_bbox_shift(disk) : b # last_init'.bbox_shift
        IN /\ last_init'.prepared <=> cond
           /\ last_init'.removed <=> (cond /\ disk.avatar_path)
           /\ cond => /\ disk'.avatar_path
                       /\ \A info \in disk'.avatar_info_path :
                             info.bbox_shift = last_init'.bbox_shift
           /\ ~cond => disk' = disk]_vars

C6_Witness ==
    /\ last_init.called
    /\ last_init.existed
    /\ ~last_init.prepared
    /\ ~last_init.raised
    /\ avatar.alive

\* C7: whenever an Avatar.init returns, the manifest stores the bbox_shift
\* of that call; a call with a bbox_shift other than the stored one has
\* removed the directory and rebuilt it.
C7_ManifestStoresRequestedShift ==
    (last_init.called /\ ~last_init.raised) =>
        /\ stored_bbox_shift(disk) = {last_init.bbox_shift}
        /\ (\E b \in last_init.stored : b # last_init.bbox_shift) =>
              (last_init.prepared /\ last_init.removed)

C7_Witness ==
    /\ last_init.called
    /\ ~last_init.raised
    /\ last_init.stored = {3}
    /\ last_init.bbox_shift = 5
    /\ avatar.alive

C9_EncoderFailureSurfaced ==
    (Assembled /\ ~(last_render.img2video /\ last_render.combine_audio)) =>
        last_render.status # "returned"

\* C10: the assembly starts only after process_frames has returned, and
\* then every crop the producer pushed has been taken from the queue.
C10_AssemblyAfterQueueDrained ==
    pc = "assemble" =>
        /\ thread = "done"
        /\ res_frame_queue = <<>>
        /\ res_frame = <<>>

\* C11: the queue between inference and process_frames is bounded by a
\* capacity fixed independently of the render: a capacity C below the
\* number of chunks of the longest render, which the number of crops waiting
\* in the queue never exceeds.
C11_QueueBoundedByCapacity ==
    \E C \in 0..(MaxChunks - 1) : Len(res_frame_queue) <= C

\* C12: within a render self.idx is changed by process_frames only, never
\* decreases, and grows by exactly one exactly when a composited frame has
\* been written under the number it had; a queue.Empty timeout and a resize
\* failure leave self.idx and the frame files as they are.
C12_CounterAdvancedOnlyByFinalizedFrame ==
    [][renders' = renders =>
        LET finalized == \E f \in render'.written \ render.written : f.num = idx
        IN /\ idx' >= idx
           /\ idx' # idx => /\ thread = "composite"
                            /\ pc' = pc
                            /\ render'.recon = render.recon
           /\ (idx' = idx + 1) <=> finalized
           /\ idx' \in {idx, idx + 1}
           /\ render'.written # render.written => finalized
           /\ (thread = "get" /\ res_frame_queue = <<>> /\ thread' # thread) =>
                 /\ idx' = idx
                 /\ render'.written = render.written
                 /\ disk'.tmp = disk.tmp
           /\ render'.skipped # render.skipped =>
                 /\ idx' = idx
                 /\ render'.written = render.written
                 /\ disk'.tmp = disk.tmp]_vars

C12_Witness ==
    /\ render.skipped > 0
    /\ idx = 2
    /\ Cardinality(render.written) = 2
    /\ thread = "done"

\* element i equals element length-1-i
Mirrored(list) ==
    \A i \in 1..Len(list) : list[i] = list[Len(list) + 1 - i]

\* C13: after the preparation each of the cyclic lists of frames, boxes and
\* latents the Avatar holds is its first half followed by that half
\* reversed.
C13_CyclicListsMirrored ==
    (avatar.alive /\ last_init.prepared) =>
        /\ Mirrored(avatar.frame_list_cycle)
        /\ Mirrored(avatar.coord_list_cycle)
        /\ Mirrored(avatar.input_latent_list_cycle)

\* C14: under fair scheduling every render in which no resize fails and
\* the producer puts all its crops terminates: process_frames returns,
\* join() returns and the assembly is reached.
C14_RenderReachesAssembly ==
    (pc = "produce") ~>
        (pc = "assemble" \/ render.skipped > 0 \/ last_render.status = "aborted")

C14_Witness ==
    /\ pc = "assemble"
    /\ thread = "done"
    /\ last_render.joined
    /\ render.skipped = 0
    /\ render.video_num = 3
    /\ avatar.batch_size = 2

\* C15: every frame file written under number k holds a crop generated
\* from the latent of the same source frame as the original frame, the box,
\* the mask and the mask box that process_frames looked up with counter k.
C15_IndexingSynchronized ==
    \A f \in render.written :
        LET latent == f.img.res_frame.latent
        IN /\ latent.latent_of = f.img.ori_frame
           /\ latent.box = f.img.bbox
           /\ f.img.mask.mask_of = f.img.ori_frame
           /\ f.img.mask.box = f.img.bbox
           /\ f.img.mask_crop_box.crop_of = f.img.bbox

\* one of the five artifacts is not in the working directory
Incomplete(d) ==
    /\ d.avatar_path
    /\ \E a \in Artifacts : d[a] = {}

\* C16: a non-forced Avatar.init with the bbox_shift of the manifest (or
\* with no manifest at all) over a working directory in which one of the
\* five artifacts is missing, be it after an aborted preparation or not,
\* ends in an exception: it never returns an Avatar with partial lists.
C16_IncompleteCacheIsFatal ==
    [][(/\ last_init'.called
        /\ ~last_init'.force
        /\ Incomplete(disk)
        /\ stored_bbox_shift(disk) \subseteq {last_init'.bbox_shift}) =>
            (last_init'.raised /\ ~avatar'.alive)]_vars

\* C17: when the assembly starts, the tmp directory holds exactly the frame
\* files the running inference() wrote, whatever earlier renders did.
C17_TmpHoldsOnlyCurrentFrames ==
    pc = "assemble" => disk.tmp = render.written

\* the producer puts nothing more: it waits in join(), or it has raised
ProducerStopped ==
    \/ pc = "join"
    \/ pc = "idle" /\ last_render.status = "aborted"

\* process_frames is in its loop with nothing to take, now or later, and
\* self.idx below the threshold of its exit test
Starved ==
    /\ ProducerStopped
    /\ thread \in {"check", "get"}
    /\ res_frame_queue = <<>>
    /\ res_frame = <<>>
    /\ idx < render.video_num - 1

\* C18: an empty queue is never taken as the end of the stream: a timed
\* out get leads back to the exit test, and once the producer has stopped
\* with the queue empty and self.idx below the exit threshold,
\* process_frames stays in its loop for ever and a join() on it does not
\* return.
C18_EmptyQueueIsNotEndOfStream ==
    [][/\ (thread = "get" /\ res_frame_queue = <<>> /\ thread' # thread) =>
             (thread' = "check" /\ idx' = idx)
       /\ Starved => (Starved' /\ thread' # "done" /\ pc' = pc)]_vars

C18_Witness ==
    /\ Starved
    /\ thread = "get"
    /\ pc = "join"
    /\ render.skipped > 0

\* C19: /user/login issues an access token if and only if the username is
\* in the user database and the password verifies against the hash stored
\* for it; otherwise it answers 401 and issues no token.
C19_TokenIffUserKnownAndPasswordVerifies ==
    \A i \in DOMAIN logins :
        LET r == logins[i]
            known == r.username \in DOMAIN fake_users_db
            verifies == known /\ bcrypt(r.password) = fake_users_db[r.username].hashed_password
        IN /\ (r.response.access_token # {}) <=> verifies
           /\ verifies => /\ r.response.status_code = 200
                           /\ \A t \in r.response.access_token :
                                 t.signed.username = r.username
           /\ ~verifies => r.response.status_code = 401

C19_Witness ==
    \E i, j, k \in DOMAIN logins :
        /\ logins[i].response.access_token # {}
        /\ logins[j].username = "nobody" /\ logins[j].response.status_code = 401
        /\ logins[k].username = "hingwen.wong" /\ logins[k].response.status_code = 401

====
